---- MODULE Spec2Model ----
(***************************************************************************)
(* A model of IrcSocket (src/irc-socket.js): the connect handshake state   *)
(* machine, the line framer, the keepalive watchdog and the session        *)
(* facade, driven by a transport that follows the net.Socket contract.     *)
(*                                                                         *)
(* Strings are sequences of characters.  A character is either a real      *)
(* one-character string (" ", ":", "\r", "\n", "+", ...) or a token that   *)
(* stands for a fixed run of characters without blanks, colons or line     *)
(* terminators ("PING", "001", "testbot", ...).                            *)
(*                                                                         *)
(* One action is one event-loop task: the handler runs to completion on a  *)
(* record `s` of the session state, then the promise reactions queued by   *)
(* the task run (Microtasks), then the variables take the record's values. *)
(***************************************************************************)
EXTENDS Integers, Sequences, FiniteSets, TLC

VARIABLES
    config,      \* the config object given to the constructor
    session,     \* the IrcSocket instance and the closure of _setHandlers
    net,         \* the transport (what it has been asked and has emitted)
    log,         \* every write, emitted event, fault and transport request, in order
    budget       \* how many more user calls, inbound chunks and timer expiries the run takes

vars == <<config, session, net, log, budget>>

----------------------------------------------------------------------------
(* Bounds *)

MaxNicks == 2
MaxSteps == 3
MaxChunkLen == 2       \* characters in a chunk of the framer's runs
MaxFramerSteps == 5    \* steps of a framer run, connect() included
MaxHandshakeSteps == 5 \* steps of a handshake run: connect() and the inbound chunks
MaxListenerSteps == 4  \* steps of a run with a user listener: connect() and the inbound chunks

----------------------------------------------------------------------------
(* Strings *)

CR == "\r"
LF == "\n"
SP == " "
COLON == ":"
Undefined == <<"undefined">>

Nick(i) == IF i = 1 THEN "testbot" ELSE IF i = 2 THEN "testbot_" ELSE "testbot__"

IndexOf(str, ch) ==
    IF \E i \in 1..Len(str) : str[i] = ch
    THEN (CHOOSE i \in 1..Len(str) : str[i] = ch /\ \A j \in 1..(i-1) : str[j] # ch) - 1
    ELSE -1

\* Array.prototype.join(" ")
RECURSIVE Join(_)
Join(arr) ==
    IF arr = <<>> THEN <<>>
    ELSE IF Len(arr) = 1 THEN arr[1]
    ELSE arr[1] \o <<SP>> \o Join(Tail(arr))

\* String.prototype.split(" ")
RECURSIVE SplitSpace(_)
SplitSpace(str) ==
    LET i == IndexOf(str, SP)
    IN  IF i = -1 THEN <<str>>
        ELSE <<SubSeq(str, 1, i)>> \o SplitSpace(SubSeq(str, i + 2, Len(str)))

\* String.prototype.split("\r\n")
RECURSIVE SplitCRLF(_)
SplitCRLF(str) ==
    IF \E i \in 1..(Len(str) - 1) : str[i] = CR /\ str[i+1] = LF
    THEN LET i == CHOOSE k \in 1..(Len(str) - 1) :
                    /\ str[k] = CR /\ str[k+1] = LF
                    /\ \A j \in 1..(k-1) : ~(str[j] = CR /\ str[j+1] = LF)
         IN  <<SubSeq(str, 1, i - 1)>> \o SplitCRLF(SubSeq(str, i + 2, Len(str)))
    ELSE <<str>>

\* String.prototype.normalize(): NFC composes a base character and the
\* combining mark that follows it.
RECURSIVE normalize(_)
normalize(str) ==
    IF Len(str) < 2 THEN str
    ELSE IF str[1] = "e" /\ str[2] = "combining-acute"
         THEN <<"e-acute">> \o normalize(SubSeq(str, 3, Len(str)))
         ELSE <<str[1]>> \o normalize(Tail(str))

includes(array, value) == \E i \in 1..Len(array) : array[i] = value

\* endsWith(string, postfix): lastIndexOf(postfix) === length - postfix.length
endsWith(str, postfix) ==
    LET n == Len(str)
        m == Len(postfix)
        occ == {i \in 0..(n - m) : SubSeq(str, i + 1, i + m) = postfix}
        last == IF occ = {} THEN -1 ELSE CHOOSE i \in occ : \A j \in occ : j <= i
    IN  last = n - m

failures == [killed |-> "killed",
             nicknamesUnavailable |-> "nicknames unavailable",
             badProxyConfiguration |-> "bad proxy configuration",
             missingRequiredCapabilities |-> "missing required capabilities",
             badPassword |-> "bad password",
             socketEnded |-> "socket ended"]


\* JavaScript values that may be undefined: counters and lists of the closure
Num(k) == [t |-> "number", n |-> k]
UndefinedNum == [t |-> "undefined", n |-> 0]
NaN == [t |-> "NaN", n |-> 0]
PlusOne(v) == IF v.t = "number" THEN Num(v.n + 1) ELSE NaN
StrictEq(a, b) == a.t # "NaN" /\ a = b

List(l) == [defined |-> TRUE, list |-> l]
UndefinedList == [defined |-> FALSE, list |-> <<>>]

\* the value of startupPromise: pending, or settled with an r-result
NoData == [capabilities |-> UndefinedList, nickname |-> Undefined]
Unsettled == [tag |-> "pending", reason |-> "", data |-> NoData]
Ok(data) == [tag |-> "Ok", reason |-> "", data |-> data]
Fail(reason) == [tag |-> "Fail", reason |-> reason, data |-> NoData]

\* parts[k], zero-based; undefined past the end
At(parts, k) == IF k + 1 <= Len(parts) THEN parts[k + 1] ELSE Undefined

----------------------------------------------------------------------------
(* Configurations *)

NoCapabilities == [defined |-> FALSE, requires |-> UndefinedList, wants |-> UndefinedList]

\* capabilities: {requires: ..., wants: ...}, either property optional
Capabilities(requires, wants) == [defined |-> TRUE, requires |-> requires, wants |-> wants]

username == <<"testuser">>
realname == <<"realbot">>
password == <<"123456">>
proxy == [password |-> <<"pword">>, username |-> <<"uname">>,
          hostname |-> <<"hostname.net">>, ip |-> <<"111.11.11.11">>]
saslPassword == <<"saslpw">>

Nicknames(n) == [i \in 1..n |-> <<Nick(i)>>]

----------------------------------------------------------------------------
(* The task record: the session, the log and the transport while a handler
   runs; thrown is set when the handler has raised and nothing caught it. *)

Task == [ss |-> session, log |-> log, net |-> net, thrown |-> FALSE]

\* a log entry: kind is "write", "emit", "settle", "throw", "transport",
\* "call", "timer", "chunk" or "listener"; text is the message written, the line emitted or the message given
\* to raw(); result is the settled value or the payload of ready; status is
\* the status a user call found
Entry(kind, name, text) ==
    [kind |-> kind, name |-> name, text |-> text, result |-> Unsettled,
     status |-> "", isArray |-> FALSE]

Logged(t, kind, name, text) == [t EXCEPT !.log = Append(@, Entry(kind, name, text))]

LoggedResult(t, kind, name, res) ==
    [t EXCEPT !.log = Append(@, [Entry(kind, name, <<>>) EXCEPT !.result = res])]

Throw(t, name) == [Logged(t, "throw", name, <<>>) EXCEPT !.thrown = TRUE]

\* run F on t unless the task has already raised
Then(t, F(_)) == IF t.thrown THEN t ELSE F(t)

isStarted(ss) == ss.status # "initialized"

isConnected(ss) == ss.status \in {"connecting", "starting", "running"}

isReady(ss) == ss.status = "running"

\* connection.write(message + "\r\n", "utf-8")
write(t, data) == Logged(t, "write", "write", data)

\* raw without the isConnected guard
raw_unguarded(t, message, isArray) ==
    LET m == IF isArray THEN Join(message) ELSE message
    IN  IF IndexOf(m, LF) # -1
        THEN Throw(t, "Newline detected in message. Use multiple raws instead.")
        ELSE write(t, m \o <<CR, LF>>)

\* raw that looks for the newline before it joins an array
raw_checkBeforeJoin(t, message, isArray) ==
    IF ~isConnected(t.ss) THEN t
    ELSE LET m == IF isArray THEN Join(message) ELSE message
         IN  IF ~isArray /\ IndexOf(m, LF) # -1
             THEN Throw(t, "Newline detected in message. Use multiple raws instead.")
             ELSE write(t, m \o <<CR, LF>>)

raw(t, message, isArray) ==
    IF ~isConnected(t.ss) THEN t
    ELSE LET m == IF isArray THEN Join(message) ELSE message
         IN  IF IndexOf(m, LF) # -1
             THEN Throw(t, "Newline detected in message. Use multiple raws instead.")
             ELSE write(t, m \o <<CR, LF>>)

\* a resolve that lets a later call replace the settled value
resolve_lastWins(t, res) ==
    LoggedResult([t EXCEPT !.ss.startupPromise = res], "settle", res.tag, res)

\* Promise resolve: only the first call settles the promise
resolve(t, res) ==
    IF t.ss.startupPromise.tag = "pending"
    THEN LoggedResult([t EXCEPT !.ss.startupPromise = res], "settle", res.tag, res)
    ELSE t

resolvePromise(t, res) ==
    resolve([t EXCEPT !.ss.pending = FALSE, !.ss.resolveCalls = @ + 1], res)

\* watchdog timers of the event loop
clearTimeout(t) ==
    IF t.ss.timeout \in {"onSilence", "onNoPong"}
    THEN [t EXCEPT !.ss.timers[t.ss.timeout] = @ - 1, !.ss.timeout = "cleared"]
    ELSE t

setTimeout(t, callback) ==
    [t EXCEPT !.ss.timers[callback] = @ + 1, !.ss.timeout = callback]

sendUser(t) ==
    raw(t, <<"USER", SP>> \o username \o <<SP, "8", SP, "*", SP, COLON>> \o realname, FALSE)

\* sendNick that never shifts the list
sendNick_noShift(t) ==
    IF Len(t.ss.nicknames) = 0
    THEN resolvePromise(raw(t, <<"QUIT">>, FALSE), Fail(failures.nicknamesUnavailable))
    ELSE LET n == t.ss.nicknames[1]
         IN  raw([t EXCEPT !.ss.nickname = n], <<<<"NICK">>, n>>, TRUE)

\* sendNick that quits without settling the outcome
sendNick_noSettle(t) ==
    IF Len(t.ss.nicknames) = 0
    THEN raw(t, <<"QUIT">>, FALSE)
    ELSE LET n == t.ss.nicknames[1]
         IN  raw([t EXCEPT !.ss.nickname = n, !.ss.nicknames = Tail(@)],
                 <<<<"NICK">>, n>>, TRUE)

\* sendNick without the test for an empty list
sendNick_noEmptyCheck(t) ==
    IF Len(t.ss.nicknames) = 0
    THEN raw([t EXCEPT !.ss.nickname = Undefined], <<<<"NICK">>, <<>>>>, TRUE)
    ELSE LET n == t.ss.nicknames[1]
         IN  raw([t EXCEPT !.ss.nickname = n, !.ss.nicknames = Tail(@)],
                 <<<<"NICK">>, n>>, TRUE)

\* sendNick that remembers only the first candidate
sendNick_keepFirst(t) ==
    IF Len(t.ss.nicknames) = 0
    THEN resolvePromise(raw(t, <<"QUIT">>, FALSE), Fail(failures.nicknamesUnavailable))
    ELSE LET n == t.ss.nicknames[1]
             kept == IF t.ss.nickname = Undefined THEN n ELSE t.ss.nickname
         IN  raw([t EXCEPT !.ss.nickname = kept, !.ss.nicknames = Tail(@)],
                 <<<<"NICK">>, n>>, TRUE)

sendNick(t) ==
    IF Len(t.ss.nicknames) = 0
    THEN resolvePromise(raw(t, <<"QUIT">>, FALSE), Fail(failures.nicknamesUnavailable))
    ELSE LET n == t.ss.nicknames[1]
         IN  raw([t EXCEPT !.ss.nickname = n, !.ss.nicknames = Tail(@)],
                 <<<<"NICK">>, n>>, TRUE)

----------------------------------------------------------------------------
(* The startup handler *)

\* "QUIT" followed by the failure, as every failing branch does
quitAndFail(t, reason) == resolvePromise(raw(t, <<"QUIT">>, FALSE), Fail(reason))

\* the completion step without the test of the two counters
requestsAnswered_unchecked(t) ==
    LET t1 == IF ~config.saslPassword
              THEN raw(t, <<"CAP", SP, "END">>, FALSE)
              ELSE t
    IN  sendNick(sendUser(t1))

\* if (sentRequests === respondedRequests) { CAP END unless SASL; USER; NICK }
requestsAnswered(t) ==
    IF StrictEq(t.ss.sentRequests, t.ss.respondedRequests)
    THEN LET t1 == IF ~config.saslPassword
                   THEN raw(t, <<"CAP", SP, "END">>, FALSE)
                   ELSE t
         IN  sendNick(sendUser(t1))
    ELSE t

\* capabilities.wants.filter(...).forEach(CAP REQ)
RECURSIVE requestWanted(_, _)
requestWanted(t, wanted) ==
    IF wanted = <<>> THEN t
    ELSE LET t1 == raw(t, <<"CAP", SP, "REQ", SP, COLON>> \o Head(wanted), FALSE)
         IN  requestWanted([t1 EXCEPT !.ss.sentRequests = PlusOne(@)], Tail(wanted))

capLS(t, parts) ==
    LET sliced == SubSeq(parts, 5, Len(parts))
        caps == t.ss.capabilities
    IN  IF sliced = <<>>
        THEN Throw([t EXCEPT !.ss.serverCapabilities = List(sliced)], "TypeError")
        ELSE LET server == [sliced EXCEPT ![1] = SubSeq(@, 2, Len(@))]
                 t1 == [t EXCEPT !.ss.serverCapabilities = List(server)]
                 wanted == SelectSeq(caps.wants.list, LAMBDA c : includes(server, c))
             IN  IF ~caps.defined THEN Throw(t1, "TypeError")
                 ELSE IF Len(caps.requires.list) # 0
                 THEN IF \A i \in 1..Len(caps.requires.list) :
                            includes(server, caps.requires.list[i])
                      THEN LET t2 == raw(t1, <<"CAP", SP, "REQ", SP, COLON>>
                                              \o Join(caps.requires.list), FALSE)
                           IN  requestWanted([t2 EXCEPT !.ss.sentRequests = PlusOne(@)],
                                             wanted)
                      ELSE quitAndFail(t1, failures.missingRequiredCapabilities)
                 ELSE requestWanted(t1, wanted)

\* a NAK branch that does not look at the required capabilities
capNAK_noFail(t, parts) ==
    LET t1 == [t EXCEPT !.ss.respondedRequests = PlusOne(@)]
    IN  IF Len(parts) < 5 \/ ~t.ss.capabilities.defined THEN Throw(t1, "TypeError")
        ELSE requestsAnswered(t1)

capNAK(t, parts) ==
    LET t1 == [t EXCEPT !.ss.respondedRequests = PlusOne(@)]
        caps == t.ss.capabilities
        capability == SubSeq(At(parts, 4), 2, Len(At(parts, 4)))
    IN  IF Len(parts) < 5 \/ ~caps.defined THEN Throw(t1, "TypeError")
        ELSE IF includes(caps.requires.list, capability)
        THEN quitAndFail(t1, failures.missingRequiredCapabilities)
        ELSE requestsAnswered(t1)

capACK(t, parts) ==
    LET t1 == [t EXCEPT !.ss.respondedRequests = PlusOne(@)]
        caps == t.ss.capabilities
        capability == SubSeq(At(parts, 4), 2, Len(At(parts, 4)))
    IN  IF Len(parts) < 5 \/ ~caps.defined THEN Throw(t1, "TypeError")
        ELSE LET t2 == IF includes(caps.wants.list, capability)
                       THEN [t1 EXCEPT !.ss.acknowledgedCapabilities.list =
                                            Append(@, capability)]
                       ELSE t1
                 t3 == IF includes(t2.ss.acknowledgedCapabilities.list, <<"sasl">>)
                       THEN raw(t2, <<<<"AUTHENTICATE">>, <<"PLAIN">>>>, TRUE)
                       ELSE t2
             IN  requestsAnswered(t3)

welcome(t) ==
    LET data == [capabilities |-> t.ss.acknowledgedCapabilities,
                 nickname |-> t.ss.nickname]
        t1 == LoggedResult([t EXCEPT !.ss.status = "running"], "emit", "ready", Ok(data))
    IN  resolvePromise(t1, Ok(data))

capNotFound(t) ==
    IF ~t.ss.capabilities.defined THEN Throw(t, "TypeError")
    ELSE IF t.ss.capabilities.requires.defined
    THEN quitAndFail(t, failures.missingRequiredCapabilities)
    ELSE sendNick(sendUser(t))

\* the ERROR branch with a QUIT before the settlement
proxyFailed_quits(t) == quitAndFail(t, failures.badProxyConfiguration)

\* the ERROR branch
proxyFailed(t) == resolvePromise(t, Fail(failures.badProxyConfiguration))

\* the 464 and Login unsuccessful branches without the settlement
passwordFailed_ignored(t) == t

\* the 464 branch and the NOTICE ... Login unsuccessful branch
passwordFailed(t) == resolvePromise(t, Fail(failures.badPassword))

LoginUnsuccessful == <<"Login", SP, "unsuccessful">>
EncodedCredentials == <<"base64(saslUsername,saslUsername,saslPassword)">>
NickRejections == {<<"431">>, <<"432">>, <<"433">>, <<"436">>, <<"437">>, <<"484">>}

startupHandler(t, line) ==
    LET parts == SplitSpace(line)
        numeric == At(parts, 1)
    IN  IF At(parts, 0) = <<"ERROR">>
        THEN proxyFailed(t)
        ELSE IF At(parts, 0) = <<"PING">> THEN t
        ELSE IF numeric = <<"CAP">>
        THEN IF At(parts, 3) = <<"LS">> THEN capLS(t, parts)
             ELSE IF At(parts, 3) = <<"NAK">> THEN capNAK(t, parts)
             ELSE IF At(parts, 3) = <<"ACK">> THEN capACK(t, parts)
             ELSE requestsAnswered(t)
        ELSE IF numeric = <<"NOTICE">>
        THEN IF endsWith(line, LoginUnsuccessful)
             THEN passwordFailed(t)
             ELSE t
        ELSE IF At(parts, 0) = <<"AUTHENTICATE">>
        THEN IF At(parts, 1) = <<"+">>
             THEN raw(t, <<<<"AUTHENTICATE">>, EncodedCredentials>>, TRUE)
             ELSE t
        ELSE IF numeric = <<"903">> THEN raw(t, <<"CAP", SP, "END">>, FALSE)
        ELSE IF numeric = <<"001">> THEN welcome(t)
        ELSE IF numeric \in {<<"410">>, <<"421">>} THEN capNotFound(t)
        ELSE IF numeric = <<"464">> THEN passwordFailed(t)
        ELSE IF numeric \in NickRejections THEN sendNick(t)
        ELSE t

----------------------------------------------------------------------------
(* The facade: data listeners, the framer, the transport handlers *)

\* the last character of the run of characters a token stands for
LastChar(c) == IF c = "PING" THEN "G" ELSE c

\* the constructor's data listener: answer PING with PONG; line.slice(-1)
\* is what slice gives when the line has no colon
pingListener(t, line) ==
    IF Len(line) >= 1 /\ line[1] = "PING"
    THEN LET i == IndexOf(line, COLON)
             text == IF i = -1 THEN <<LastChar(line[Len(line)])>>
                     ELSE SubSeq(line, i + 1, Len(line))
         IN  raw(t, <<<<"PONG">>, text>>, TRUE)
    ELSE t

\* a data listener of the user: the log keeps the line it was called with
userListener(t, line) == Logged(t, "listener", "data", line)

\* this.emit("data", line): the listeners in registration order, the
\* constructor's first; a listener that raises ends the emit
emitLine(t, line) ==
    LET t1 == Logged(t, "emit", "data", line)
        t2 == pingListener(t1, line)
        t3 == IF t2.ss.listening = "early"
              THEN Then(t2, LAMBDA u : userListener(u, line))
              ELSE t2
        t4 == IF t3.thrown \/ ~t3.ss.attached THEN t3 ELSE startupHandler(t3, line)
    IN  IF t4.ss.listening = "late"
        THEN Then(t4, LAMBDA u : userListener(u, line))
        ELSE t4

RECURSIVE emitLines(_, _)
emitLines(t, lines) ==
    IF lines = <<>> \/ t.thrown THEN t
    ELSE emitLines(emitLine(t, normalize(Head(lines))), Tail(lines))

\* onData that schedules the silence timer without cancelling the pending one
onData_noClear(t, data) ==
    LET split == SplitCRLF(data)
        lines == [split EXCEPT ![1] = t.ss.lastLine \o @]
        t1 == [t EXCEPT !.ss.lastLine = lines[Len(lines)]]
        t2 == emitLines(t1, SubSeq(lines, 1, Len(lines) - 1))
    IN  Then(t2, LAMBDA u : setTimeout(u, "onSilence"))

onData(t, data) ==
    LET split == SplitCRLF(data)
        lines == [split EXCEPT ![1] = t.ss.lastLine \o @]
        t1 == [t EXCEPT !.ss.lastLine = lines[Len(lines)]]
        t2 == emitLines(t1, SubSeq(lines, 1, Len(lines) - 1))
    IN  Then(t2, LAMBDA u : setTimeout(clearTimeout(u), "onSilence"))

\* end that asks the transport to end without settling the outcome
end_noSettle(t) ==
    IF ~isConnected(t.ss) THEN t
    ELSE Logged([t EXCEPT !.net.endCalls = @ + 1], "transport", "end", <<>>)

end(t) ==
    IF ~isConnected(t.ss) THEN t
    ELSE LET t1 == IF t.ss.pending
                   THEN resolvePromise(t, Fail(failures.socketEnded))
                   ELSE t
         IN  Logged([t1 EXCEPT !.net.endCalls = @ + 1], "transport", "end", <<>>)

\* a timeout event with no listener that ends the socket
emitTimeout_noEnd(t) == Logged(t, "emit", "timeout", <<>>)

\* this.emit("timeout"): the constructor's listener ends the socket
emitTimeout(t) == end(Logged(t, "emit", "timeout", <<>>))

\* onSilence that gives up at once instead of probing the server
onSilence_giveUp(t) == emitTimeout(t)

onSilence(t) == raw(setTimeout(t, "onNoPong"), <<"PING", SP, COLON, "ignored">>, FALSE)

onNoPong(t) == emitTimeout(t)

\* a connect handler that sends PASS before WEBIRC
onConnect_passFirst(t) ==
    IF ~t.ss.pending THEN t
    ELSE LET caps == t.ss.capabilities
             t1 == Logged([t EXCEPT !.ss.status = "starting"], "emit", "connect", <<>>)
             t2 == setTimeout(t1, "onSilence")
             req == IF caps.requires.defined THEN caps.requires ELSE List(<<>>)
             wan == IF caps.wants.defined THEN caps.wants ELSE List(<<>>)
             t3 == IF caps.defined
                   THEN [t2 EXCEPT !.ss.capabilities.requires = req,
                                   !.ss.capabilities.wants = wan,
                                   !.ss.acknowledgedCapabilities = req,
                                   !.ss.sentRequests = Num(0),
                                   !.ss.respondedRequests = Num(0)]
                   ELSE t2
             t4 == [t3 EXCEPT !.ss.attached = TRUE]
             t5 == IF config.password THEN raw(t4, <<<<"PASS">>, password>>, TRUE) ELSE t4
             t6 == IF config.proxy
                   THEN raw(t5, <<<<"WEBIRC">>, proxy.password, proxy.username,
                                  proxy.hostname, proxy.ip>>, TRUE)
                   ELSE t5
         IN  IF caps.defined
             THEN raw(t6, <<"CAP", SP, "LS">>, FALSE)
             ELSE sendNick(sendUser(t6))

onConnect(t) ==
    IF ~t.ss.pending THEN t
    ELSE LET caps == t.ss.capabilities
             t1 == Logged([t EXCEPT !.ss.status = "starting"], "emit", "connect", <<>>)
             t2 == setTimeout(t1, "onSilence")
             req == IF caps.requires.defined THEN caps.requires ELSE List(<<>>)
             wan == IF caps.wants.defined THEN caps.wants ELSE List(<<>>)
             t3 == IF caps.defined
                   THEN [t2 EXCEPT !.ss.capabilities.requires = req,
                                   !.ss.capabilities.wants = wan,
                                   !.ss.acknowledgedCapabilities = req,
                                   !.ss.sentRequests = Num(0),
                                   !.ss.respondedRequests = Num(0)]
                   ELSE t2
             t4 == [t3 EXCEPT !.ss.attached = TRUE]
             t5 == IF config.proxy
                   THEN raw(t4, <<<<"WEBIRC">>, proxy.password, proxy.username,
                                  proxy.hostname, proxy.ip>>, TRUE)
                   ELSE t4
             t6 == IF config.password THEN raw(t5, <<<<"PASS">>, password>>, TRUE) ELSE t5
         IN  IF caps.defined
             THEN raw(t6, <<"CAP", SP, "LS">>, FALSE)
             ELSE sendNick(sendUser(t6))

onError(t) == Logged([t EXCEPT !.ss.status = "closed"], "emit", "error", <<>>)

\* a close handler that never settles the outcome
onClose_noKill(t) == Logged([t EXCEPT !.ss.status = "closed"], "emit", "close", <<>>)

onClose(t) ==
    LET t1 == IF t.ss.status \in {"starting", "connecting"}
              THEN resolvePromise(t, Fail(failures.killed))
              ELSE t
    IN  Logged([t1 EXCEPT !.ss.status = "closed"], "emit", "close", <<>>)

onEnd(t) ==
    LET t1 == Logged(t, "emit", "end", <<>>)
        t2 == IF t1.ss.pending
              THEN resolvePromise(t1, Fail(failures.socketEnded))
              ELSE t1
    IN  clearTimeout(t2)

\* connect without the isStarted guard
connect_unguarded(t) ==
    Logged([t EXCEPT !.ss.status = "connecting",
                     !.ss.connection = TRUE,
                     !.net.connectCalls = @ + 1],
           "transport", "connect", <<>>)

connect(t) ==
    IF isStarted(t.ss) THEN Throw(t, "Cannot restart an irc Socket.")
    ELSE Logged([t EXCEPT !.ss.status = "connecting",
                          !.ss.connection = TRUE,
                          !.net.connectCalls = @ + 1],
                "transport", "connect", <<>>)

\* startupPromise.finally(...): once the promise is settled its reaction
\* removes the startup handler, after the task that settled it
Microtasks(t) ==
    IF t.ss.attached /\ t.ss.startupPromise.tag # "pending"
    THEN [t EXCEPT !.ss.attached = FALSE]
    ELSE t

Commit(t) ==
    LET u == Microtasks(t)
    IN  /\ session' = u.ss
        /\ log' = u.log
        /\ net' = u.net

----------------------------------------------------------------------------
(* Inputs *)

Prefix == <<COLON, "irc.test.net", SP>>

rpl_welcome == Prefix \o <<"001">>
rpl_nicknameinuse == Prefix \o <<"433">>
err_badpassword == Prefix \o <<"464">>
webirc_error == <<"ERROR", SP, COLON, "Closing">>
ping == <<"PING", SP, COLON, "PINGMESSAGE">>
single == <<"PRIVMSG">>

Lines == {rpl_welcome, rpl_nicknameinuse, err_badpassword, webirc_error, ping}

\* two lines that arrive in one chunk
Pairs == {<<rpl_welcome, rpl_welcome>>, <<rpl_nicknameinuse, rpl_welcome>>,
          <<rpl_nicknameinuse, rpl_nicknameinuse>>, <<err_badpassword, rpl_welcome>>,
          <<err_badpassword, rpl_nicknameinuse>>}

\* an inbound chunk: one or two complete lines, or a piece of a line
Chunks ==
    {l \o <<CR, LF>> : l \in Lines}
    \cup {p[1] \o <<CR, LF>> \o p[2] \o <<CR, LF>> : p \in Pairs}
    \cup {single}

RawInputs ==
    {[isArray |-> FALSE, message |-> <<"PRIVMSG", SP, "#c", SP, COLON, "hi">>],
     [isArray |-> FALSE, message |-> <<"PRIVMSG", SP, "#c", SP, COLON, "a", LF, "b">>],
     [isArray |-> TRUE, message |-> <<<<"PRIVMSG">>, <<"#c">>, <<COLON, "hi">>>>],
     [isArray |-> TRUE, message |-> <<<<"PRIVMSG">>, <<"#c">>, <<COLON, "a", LF>>>>]}

Configs ==
    {[nicknames |-> Nicknames(n), password |-> pw, proxy |-> FALSE,
      capabilities |-> NoCapabilities, saslPassword |-> FALSE] :
        n \in 0..MaxNicks, pw \in {FALSE}}

----------------------------------------------------------------------------
(* The state machine *)

\* new IrcSocket(config, netSocket)
NewSession(cfg) ==
    [status |-> "initialized",
     pending |-> TRUE,
     startupPromise |-> Unsettled,
     resolveCalls |-> 0,
     nicknames |-> cfg.nicknames,
     capabilities |-> cfg.capabilities,
     connection |-> FALSE,
     timeout |-> "null",
     timers |-> [onSilence |-> 0, onNoPong |-> 0],
     lastLine |-> <<>>,
     attached |-> FALSE,
     listening |-> "no",
     serverCapabilities |-> UndefinedList,
     acknowledgedCapabilities |-> UndefinedList,
     sentRequests |-> UndefinedNum,
     respondedRequests |-> UndefinedNum,
     nickname |-> Undefined]

NewTransport ==
    [connectCalls |-> 0, endCalls |-> 0,
     connected |-> FALSE, ended |-> FALSE, errored |-> FALSE, closed |-> FALSE]

Init ==
    /\ config \in Configs
    /\ session = NewSession(config)
    /\ net = NewTransport
    /\ log = <<>>
    /\ budget = MaxSteps

\* the transport can emit: handlers are set and it has not closed
Open == session.connection /\ ~net.closed

\* the transport can deliver: connected, no error, no end of stream
Flowing == Open /\ net.connected /\ ~net.errored /\ ~net.ended

\* the user calls a method: the log keeps the call and the status it found
Called(method, message, isArray) ==
    [Task EXCEPT !.log = Append(@, [Entry("call", method,
                                          IF isArray THEN Join(message) ELSE message)
                                    EXCEPT !.status = session.status,
                                           !.isArray = isArray])]

UserConnect ==
    /\ budget > 0
    /\ budget' = budget - 1
    /\ Commit(connect(Called("connect", <<>>, FALSE)))
    /\ UNCHANGED config

UserEnd ==
    /\ budget > 0
    /\ budget' = budget - 1
    /\ Commit(end(Called("end", <<>>, FALSE)))
    /\ UNCHANGED config

UserRaw ==
    /\ budget > 0
    /\ budget' = budget - 1
    /\ \E in \in RawInputs :
          Commit(raw(Called("raw", in.message, in.isArray), in.message, in.isArray))
    /\ UNCHANGED config

TransportConnect ==
    /\ Open /\ ~net.connected /\ ~net.errored
    /\ Commit(onConnect([Task EXCEPT !.net.connected = TRUE]))
    /\ UNCHANGED <<config, budget>>

TransportData ==
    /\ Flowing
    /\ budget > 0
    /\ budget' = budget - 1
    /\ \E data \in Chunks : Commit(onData(Task, data))
    /\ UNCHANGED config

TransportEnd ==
    /\ Flowing
    /\ Commit(onEnd([Task EXCEPT !.net.ended = TRUE]))
    /\ UNCHANGED <<config, budget>>

TransportError ==
    /\ Open /\ ~net.errored
    /\ Commit(onError([Task EXCEPT !.net.errored = TRUE]))
    /\ UNCHANGED <<config, budget>>

TransportClose ==
    /\ Open
    /\ Commit(onClose([Task EXCEPT !.net.closed = TRUE]))
    /\ UNCHANGED <<config, budget>>

\* a timer of the given kind expires; the handle, if it names it, is spent;
\* the log keeps the expiry and the status it found
Expire(t, callback) ==
    [t EXCEPT !.ss.timers[callback] = @ - 1,
              !.ss.timeout = IF @ = callback /\ t.ss.timers[callback] = 1
                             THEN "expired" ELSE @,
              !.log = Append(@, [Entry("timer", callback, <<>>)
                                 EXCEPT !.status = t.ss.status])]

SilenceTimer ==
    /\ session.timers.onSilence > 0
    /\ budget > 0
    /\ budget' = budget - 1
    /\ Commit(onSilence(Expire(Task, "onSilence")))
    /\ UNCHANGED config

NoPongTimer ==
    /\ session.timers.onNoPong > 0
    /\ budget > 0
    /\ budget' = budget - 1
    /\ Commit(onNoPong(Expire(Task, "onNoPong")))
    /\ UNCHANGED config

Next ==
    \/ UserConnect
    \/ UserEnd
    \/ UserRaw
    \/ TransportConnect
    \/ TransportData
    \/ TransportEnd
    \/ TransportError
    \/ TransportClose
    \/ SilenceTimer
    \/ NoPongTimer

Spec == Init /\ [][Next]_vars

\* the transport closes once it has been asked to end: the peer answers the
\* FIN, and the mock transport of the tests closes inside end()
LiveSpec == Spec /\ WF_vars(net.endCalls > 0 /\ TransportClose)

----------------------------------------------------------------------------
(* The framer's runs: one configuration, chunks cut anywhere (between lines,
   inside a line, between the CR and the LF of a terminator), a data listener
   of the user, and the watchdog timers *)

FramerChars == {"PING", COLON, CR, LF}

FramerChunks == UNION {[1..n -> FramerChars] : n \in 1..MaxChunkLen}

FramerConfig ==
    [nicknames |-> Nicknames(1), password |-> FALSE, proxy |-> FALSE,
     capabilities |-> NoCapabilities, saslPassword |-> FALSE]

FramerInit ==
    /\ config = FramerConfig
    /\ session = NewSession(config)
    /\ net = NewTransport
    /\ log = <<>>
    /\ budget = MaxFramerSteps

\* the transport delivers a chunk: the log keeps it
Received(data) == Logged(Task, "chunk", "data", data)

FramerData ==
    /\ Flowing
    /\ budget > 0
    /\ budget' = budget - 1
    /\ \E data \in FramerChunks : Commit(onData(Received(data), data))
    /\ UNCHANGED config

\* socket.on("data", listener): the listener goes after the ones registered
\* so far: before the startup handler if that one is not attached yet
UserOn ==
    /\ session.listening = "no"
    /\ session' = [session EXCEPT !.listening = IF session.attached THEN "late" ELSE "early"]
    /\ log' = Called("on", <<>>, FALSE).log
    /\ UNCHANGED <<config, net, budget>>

FramerNext ==
    \/ UserConnect
    \/ UserOn
    \/ TransportConnect
    \/ FramerData
    \/ SilenceTimer
    \/ NoPongTimer

FramerSpec == FramerInit /\ [][FramerNext]_vars

----------------------------------------------------------------------------
(* The handshake's runs: configurations with a proxy, a password,
   capabilities or SASL, and the lines a server sends during registration,
   one line to a chunk *)

capA == <<"a">>
capB == <<"b">>
capSasl == <<"sasl">>

cap_ls == Prefix \o <<"CAP", SP, "*", SP, "LS", SP, COLON, "a", SP, "b">>
cap_ls_b == Prefix \o <<"CAP", SP, "*", SP, "LS", SP, COLON, "b">>
cap_ls_sasl == Prefix \o <<"CAP", SP, "*", SP, "LS", SP, COLON, "sasl">>
cap_ack(capability) == Prefix \o <<"CAP", SP, "*", SP, "ACK", SP, COLON>> \o capability
cap_nak(capability) == Prefix \o <<"CAP", SP, "*", SP, "NAK", SP, COLON>> \o capability
cap_not_found_421 == Prefix \o <<"421", SP, "Havvy2", SP, "BLAH">>
authenticate_plus == <<"AUTHENTICATE", SP, "+">>
rpl_saslsuccess == Prefix \o <<"903">>
notice_badlogin == Prefix \o <<"NOTICE", SP, "*", SP, COLON, "Login", SP, "unsuccessful">>
notice_lookup == Prefix \o <<"NOTICE", SP, "*", SP, COLON, "Looking", SP, "up">>

PlainConfigs ==
    {[nicknames |-> Nicknames(1), password |-> pw, proxy |-> px,
      capabilities |-> NoCapabilities, saslPassword |-> FALSE] :
        pw \in BOOLEAN, px \in BOOLEAN}

CapConfigs ==
    {[nicknames |-> Nicknames(1), password |-> FALSE, proxy |-> FALSE,
      capabilities |-> c, saslPassword |-> FALSE] :
        c \in {Capabilities(List(<<capA>>), UndefinedList),
               Capabilities(UndefinedList, List(<<capA, capB>>)),
               Capabilities(List(<<capA>>), List(<<capB>>))}}

SaslConfigs ==
    {[nicknames |-> Nicknames(1), password |-> FALSE, proxy |-> FALSE,
      capabilities |-> Capabilities(UndefinedList, List(<<capSasl>>)),
      saslPassword |-> TRUE]}

HandshakeConfigs == PlainConfigs \cup CapConfigs \cup SaslConfigs

PlainLines == {rpl_welcome, rpl_nicknameinuse, webirc_error, err_badpassword,
               notice_badlogin, notice_lookup}
CapLines == {cap_ls, cap_ls_b, cap_ack(capA), cap_ack(capB), cap_nak(capA), cap_nak(capB),
             cap_not_found_421, rpl_welcome}
SaslLines == {cap_ls_sasl, cap_ack(capSasl), cap_nak(capSasl), authenticate_plus,
              rpl_saslsuccess, rpl_welcome}

\* what the server of a configuration sends: its lines, one to a chunk, and
\* for a plain configuration also an ERROR with a 001 behind it in one chunk
HandshakeChunks(cfg) ==
    IF cfg.saslPassword THEN {l \o <<CR, LF>> : l \in SaslLines}
    ELSE IF cfg.capabilities.defined THEN {l \o <<CR, LF>> : l \in CapLines}
    ELSE {l \o <<CR, LF>> : l \in PlainLines}
         \cup {webirc_error \o <<CR, LF>> \o rpl_welcome \o <<CR, LF>>}

HandshakeInit ==
    /\ config \in HandshakeConfigs
    /\ session = NewSession(config)
    /\ net = NewTransport
    /\ log = <<>>
    /\ budget = MaxHandshakeSteps

HandshakeData ==
    /\ Flowing
    /\ budget > 0
    /\ budget' = budget - 1
    /\ \E data \in HandshakeChunks(config) : Commit(onData(Task, data))
    /\ UNCHANGED config

HandshakeNext ==
    \/ UserConnect
    \/ TransportConnect
    \/ HandshakeData
    \/ TransportEnd
    \/ TransportClose

HandshakeSpec == HandshakeInit /\ [][HandshakeNext]_vars

----------------------------------------------------------------------------
(* The user's data listener during startup: one registered at any moment,
   and lines the startup handler has no branch or no data for *)

cap_ls_none == Prefix \o <<"CAP", SP, "*", SP, "LS">>

ListenerConfigs ==
    {[nicknames |-> Nicknames(1), password |-> FALSE, proxy |-> FALSE,
      capabilities |-> c, saslPassword |-> FALSE] :
        c \in {NoCapabilities, Capabilities(UndefinedList, List(<<capA>>))}}

ListenerLines == {rpl_welcome, rpl_nicknameinuse, cap_not_found_421, cap_ack(capA),
                  cap_ls_none, cap_ls_b, notice_lookup}

ListenerChunks ==
    {l \o <<CR, LF>> : l \in ListenerLines}
    \cup {cap_not_found_421 \o <<CR, LF>> \o rpl_welcome \o <<CR, LF>>}

ListenerInit ==
    /\ config \in ListenerConfigs
    /\ session = NewSession(config)
    /\ net = NewTransport
    /\ log = <<>>
    /\ budget = MaxListenerSteps

ListenerData ==
    /\ Flowing
    /\ budget > 0
    /\ budget' = budget - 1
    /\ \E data \in ListenerChunks : Commit(onData(Task, data))
    /\ UNCHANGED config

ListenerNext ==
    \/ UserConnect
    \/ UserOn
    \/ TransportConnect
    \/ ListenerData

ListenerSpec == ListenerInit /\ [][ListenerNext]_vars

----------------------------------------------------------------------------
(* Reading the log *)

IsWrite(e) == e.kind = "write"
IsCommand(e, command) == e.kind = "write" /\ e.text[1] = command
IsSettle(e) == e.kind = "settle"
IsEmit(e, name) == e.kind = "emit" /\ e.name = name
IsCall(e, method) == e.kind = "call" /\ e.name = method
IsTimer(e, callback) == e.kind = "timer" /\ e.name = callback
IsChunk(e) == e.kind = "chunk"
IsListener(e) == e.kind = "listener"
IsTransport(e, request) == e.kind = "transport" /\ e.name = request
IsRejection(e) == IsEmit(e, "data") /\ At(SplitSpace(e.text), 1) \in NickRejections

Count(P(_)) == Cardinality({i \in DOMAIN log : P(log[i])})

\* the arguments of the NICK commands written, in order
NickWrites == SelectSeq(log, LAMBDA e : IsCommand(e, "NICK"))
NickArgs == [i \in 1..Len(NickWrites) |-> SubSeq(NickWrites[i].text, 3, Len(NickWrites[i].text) - 2)]

\* a write the client made on its own, not the one a raw() call of the user made
ClientWrite(i) == IsWrite(log[i]) /\ ~(i > 1 /\ log[i-1].kind = "call")

Outcome == session.startupPromise
Settled == Outcome.tag # "pending"
Failed(reason) == Outcome = Fail(reason)
Added == SubSeq(log', Len(log) + 1, Len(log'))

RECURSIVE Concat(_)
Concat(strs) == IF strs = <<>> THEN <<>> ELSE Head(strs) \o Concat(Tail(strs))

TextsOf(P(_)) == LET sel == SelectSeq(log, P) IN [i \in 1..Len(sel) |-> sel[i].text]

\* everything the transport has delivered, and the lines emitted for it
Inbound == Concat(TextsOf(IsChunk))
Emitted == TextsOf(LAMBDA e : IsEmit(e, "data"))

\* an emitted line whose k-th token (from 0) is tok
IsLine(e, k, tok) == IsEmit(e, "data") /\ At(SplitSpace(e.text), k) = <<tok>>
IsCapLine(e, sub) == IsLine(e, 1, "CAP") /\ IsLine(e, 3, sub)
IsCapReply(e) == IsCapLine(e, "ACK") \/ IsCapLine(e, "NAK")

\* the capability a CAP ACK or CAP NAK line names: parts[4] without its colon
Named(e) == SubSeq(At(SplitSpace(e.text), 4), 2, Len(At(SplitSpace(e.text), 4)))

\* the capabilities a CAP LS line lists
Listed(e) ==
    LET sliced == SubSeq(SplitSpace(e.text), 5, Len(SplitSpace(e.text)))
    IN  [sliced EXCEPT ![1] = SubSeq(@, 2, Len(@))]

IsCap(e, sub) == IsWrite(e) /\ Len(e.text) >= 3 /\ e.text[1] = "CAP" /\ e.text[3] = sub
Writes(entries) == SelectSeq(entries, IsWrite)
Requires == IF config.capabilities.requires.defined
            THEN config.capabilities.requires.list ELSE <<>>
Wants == IF config.capabilities.wants.defined
         THEN config.capabilities.wants.list ELSE <<>>

HasCRLF(str) == \E i \in 1..(Len(str) - 1) : str[i] = CR /\ str[i+1] = LF

----------------------------------------------------------------------------
(* Claims *)

\* C1: the connect() outcome settles at most once: once it is settled, no
\* later line, transport event, end() call or timer changes its value, and
\* the log holds at most one settlement.
C1_SettlesOnce ==
    /\ [](Count(IsSettle) <= 1)
    /\ [][Settled => Outcome' = Outcome]_vars

\* C1 witness: a 464 settled BadPassword, then the transport closed in status
\* Starting and the close handler tried to settle Killed.
C1_Witness ==
    /\ Failed(failures.badPassword)
    /\ session.resolveCalls >= 2
    /\ net.closed

\* C2: the NICKs written are the configured nicknames from the front, in
\* order, none repeated and none skipped; the working list is what remains;
\* and while the handshake is pending in Starting, k rejection numerics have
\* produced exactly k+1 NICKs.
C2_NicknamesInOrder ==
    /\ Len(NickArgs) <= Len(config.nicknames)
    /\ NickArgs = SubSeq(config.nicknames, 1, Len(NickArgs))
    /\ session.nicknames = SubSeq(config.nicknames, Len(NickArgs) + 1, Len(config.nicknames))
    /\ (session.status = "starting" /\ ~Settled) => Len(NickArgs) = Count(IsRejection) + 1

\* C2 witness: one rejection received, the second nickname sent, still pending.
C2_Witness ==
    /\ session.status = "starting" /\ ~Settled
    /\ Count(IsRejection) = 1
    /\ NickArgs = <<<<Nick(1)>>, <<Nick(2)>>>>

C5_Original ==
    /\ Count(LAMBDA e : IsEmit(e, "ready")) = IF Outcome.tag = "Ok" THEN 1 ELSE 0
    /\ \A i \in DOMAIN log : (IsSettle(log[i]) /\ log[i].name = "Ok") =>
          (i > 1 /\ IsEmit(log[i-1], "ready"))

\* C6: when the outcome settles Ok its nickname is the argument of the last
\* NICK written before the settlement.
C6_OkNickname ==
    \A i \in DOMAIN log : (IsSettle(log[i]) /\ log[i].name = "Ok") =>
        /\ Outcome = log[i].result
        /\ \E j \in 1..(i-1) :
              /\ IsCommand(log[j], "NICK")
              /\ \A k \in (j+1)..(i-1) : ~IsCommand(log[k], "NICK")
              /\ log[i].result.data.nickname = SubSeq(log[j].text, 3, Len(log[j].text) - 2)

\* C6 witness: the first nickname was rejected and the session is Ok with
\* the second.
C6_Witness ==
    /\ Outcome.tag = "Ok"
    /\ Outcome.data.nickname = <<Nick(2)>>
    /\ Len(NickArgs) = 2

\* C7: a step that starts in status Initialized or Closed writes nothing
\* (whether the write comes from raw(), the auto-PONG, the watchdog or the
\* startup handler), and a raw() call in such a status changes nothing.
C7_WriteOnlyWhenConnected ==
    [][~isConnected(session) =>
          /\ Count(IsWrite)' = Count(IsWrite)
          /\ (Len(Added) >= 1 /\ IsCall(Added[1], "raw")) =>
                (session' = session /\ net' = net /\ Len(Added) = 1)]_vars

\* C7 witness: raw() was called in status Closed after the session had
\* written, and again nothing was written.
C7_Witness ==
    /\ session.status = "closed"
    /\ Len(log) > 1
    /\ IsCall(log[Len(log)], "raw")
    /\ Count(IsWrite) >= 2

\* C8: raw() called while connected with a message that contains a newline
\* raises and writes nothing; every message written is a text without
\* newline followed by CRLF.
C8_NoNewline ==
    /\ [](\A i \in DOMAIN log : IsWrite(log[i]) =>
            LET m == log[i].text
            IN  /\ Len(m) >= 2
                /\ m[Len(m) - 1] = CR /\ m[Len(m)] = LF
                /\ \A k \in 1..(Len(m) - 2) : m[k] # LF)
    /\ [][(/\ Len(Added) >= 1 /\ IsCall(Added[1], "raw")
           /\ isConnected(session)
           /\ IndexOf(Added[1].text, LF) # -1)
          => (/\ Len(Added) = 2 /\ Added[2].kind = "throw"
              /\ session' = session /\ net' = net)]_vars

\* C8 witness: an array message with a newline was given to raw() while
\* connected and the call raised.
C8_Witness ==
    \E i \in 1..(Len(log) - 1) :
        /\ IsCall(log[i], "raw")
        /\ log[i].isArray
        /\ log[i].status = "starting"
        /\ log[i+1].kind = "throw"

\* C9: connect() called in a status other than Initialized raises and leaves
\* the session and the transport as they were: no second transport connect,
\* no second set of handlers, same status, same outcome.
C9_NoRestart ==
    [][(Len(Added) >= 1 /\ IsCall(Added[1], "connect") /\ isStarted(session)) =>
          /\ session' = session /\ net' = net
          /\ Len(Added) = 2
          /\ Added[2].kind = "throw"]_vars

\* C9 witness: connect() was called after close and raised.
C9_Witness ==
    \E i \in 1..(Len(log) - 1) :
        /\ IsCall(log[i], "connect")
        /\ log[i].status = "closed"
        /\ log[i+1].kind = "throw"
        /\ net.connectCalls = 1

\* C10 as stated: an end() call that follows an earlier end() call has no
\* effect: no further settlement, no further transport end request, no
\* event, same status.
C10_Original ==
    [][(/\ Len(Added) >= 1 /\ IsCall(Added[1], "end")
        /\ Count(LAMBDA e : IsCall(e, "end")) >= 1)
       => (session' = session /\ net' = net /\ Len(Added) = 1)]_vars

\* C11: end() called while the outcome is pending (status Connecting or
\* Starting) settles Fail(SocketEnded) and only then asks the transport to
\* end; no later step (a close among them) changes that outcome; and a
\* transport connect event that comes after an end() made in Connecting is
\* ignored: same status, no connect event, no write, no timer.
C11_EndWhilePending ==
    /\ [][(/\ Len(Added) >= 1 /\ IsCall(Added[1], "end")
           /\ session.status \in {"connecting", "starting"} /\ ~Settled)
          => (/\ Len(Added) = 3
              /\ IsSettle(Added[2])
              /\ Added[2].result = Fail(failures.socketEnded)
              /\ IsTransport(Added[3], "end")
              /\ session'.status = session.status
              /\ Failed(failures.socketEnded)')]_vars
    /\ [][Failed(failures.socketEnded) => Failed(failures.socketEnded)']_vars
    /\ [][(/\ ~net.connected /\ net'.connected
           /\ \E i \in DOMAIN log : IsCall(log[i], "end") /\ log[i].status = "connecting")
          => (session' = session /\ log' = log)]_vars

\* C11 witness: end() was called in Connecting, the transport then connected
\* and closed; the outcome is SocketEnded, nothing was emitted but the close
\* and nothing was written.
C11_Witness ==
    /\ \E i \in DOMAIN log : IsCall(log[i], "end") /\ log[i].status = "connecting"
    /\ net.connected /\ net.closed
    /\ session.status = "closed"
    /\ Failed(failures.socketEnded)
    /\ Count(LAMBDA e : IsEmit(e, "connect")) = 0
    /\ Count(IsWrite) = 0
    /\ session.timers = [onSilence |-> 0, onNoPong |-> 0]

\* C12: a transport close in status Connecting or Starting with the outcome
\* pending settles Fail(Killed), moves status to Closed and emits close; a
\* close in status Running settles nothing: it moves status to Closed and
\* emits close, and nothing else of the session changes.
C12_CloseKills ==
    [][(~net.closed /\ net'.closed) =>
          /\ session'.status = "closed"
          /\ Len(Added) >= 1 /\ IsEmit(Added[Len(Added)], "close")
          /\ (session.status \in {"connecting", "starting"} /\ ~Settled) =>
                /\ Len(Added) = 2
                /\ IsSettle(Added[1])
                /\ Added[1].result = Fail(failures.killed)
                /\ Failed(failures.killed)'
          /\ session.status = "running" =>
                /\ Len(Added) = 1
                /\ session' = [session EXCEPT !.status = "closed"]]_vars

\* C12 witness: the transport closed during Starting; the outcome is Killed,
\* the status Closed and the close event is the last thing in the log.
C12_Witness ==
    /\ Failed(failures.killed)
    /\ session.status = "closed"
    /\ Count(LAMBDA e : IsEmit(e, "connect")) = 1
    /\ Len(log) >= 2
    /\ IsEmit(log[Len(log)], "close")
    /\ IsSettle(log[Len(log) - 1])

\* C13 as stated: whenever the outcome is Fail, the status is Closed, or the
\* transport end has been requested, or QUIT has been written.
C13_Original ==
    Outcome.tag = "Fail" =>
        \/ session.status = "closed"
        \/ net.endCalls > 0
        \/ \E i \in DOMAIN log : IsCommand(log[i], "QUIT")

\* C14 as stated: when what has been delivered ends in CRLF, the lines
\* emitted are its CRLF-separated segments without the empty ones, in order,
\* however it was cut into chunks.
C14_Original ==
    (Len(Inbound) >= 2 /\ SubSeq(Inbound, Len(Inbound) - 1, Len(Inbound)) = <<CR, LF>>) =>
        Emitted = SelectSeq(SplitCRLF(Inbound), LAMBDA l : l # <<>>)

\* C15 as stated: no emitted line contains CRLF, and what follows the last
\* CRLF delivered is held back for the next chunk.
C15_Original ==
    /\ \A i \in DOMAIN Emitted : ~HasCRLF(Emitted[i])
    /\ Inbound # <<>> =>
          session.lastLine = SplitCRLF(Inbound)[Len(SplitCRLF(Inbound))]

\* C16 as stated: every emitted line that begins with PING is followed at
\* once by one PONG (carrying the line from its first colon on, when it has
\* a colon), that PONG comes before the user's data listener is called with
\* the line, and the listener is still called with it.
C16_Original ==
    /\ \A i \in DOMAIN log :
          (IsEmit(log[i], "data") /\ log[i].text # <<>> /\ log[i].text[1] = "PING") =>
              LET line == log[i].text
                  c == IndexOf(line, COLON)
              IN  /\ i + 1 <= Len(log)
                  /\ IsCommand(log[i+1], "PONG")
                  /\ c # -1 => log[i+1].text =
                        <<"PONG", SP>> \o SubSeq(line, c + 1, Len(line)) \o <<CR, LF>>
                  /\ (\E k \in 1..(i-1) : IsCall(log[k], "on")) =>
                        /\ i + 2 <= Len(log)
                        /\ IsListener(log[i+2])
                        /\ log[i+2].text = line
    /\ \A j \in DOMAIN log :
          (IsListener(log[j]) /\ log[j].text # <<>> /\ log[j].text[1] = "PING") =>
              (j > 1 /\ IsCommand(log[j-1], "PONG"))

C18_Original ==
    /\ [][(Len(Added) >= 1 /\ IsChunk(Added[1])) =>
            /\ session'.timers = [onSilence |-> 1, onNoPong |-> 0]
            /\ session'.timeout = "onSilence"]_vars
    /\ [](\A i \in DOMAIN log : IsEmit(log[i], "timeout") =>
            \E j \in 1..(i-1) :
                /\ IsWrite(log[j])
                /\ log[j].text = <<"PING", SP, COLON, "ignored", CR, LF>>
                /\ \A k \in (j+1)..(i-1) : ~IsChunk(log[k]))

\* C19: the expiry of the no-pong timer in a connected session emits timeout
\* and calls end() once: the outcome, if it was pending, settles
\* Fail(SocketEnded), then the transport is asked to end, once; the status
\* is left as it was; and the session then reaches Closed with a close
\* event.
C19_NoPongEnds ==
    /\ [][(Len(Added) >= 1 /\ IsTimer(Added[1], "onNoPong") /\ isConnected(session)) =>
            /\ Len(Added) = IF Settled THEN 3 ELSE 4
            /\ IsEmit(Added[2], "timeout")
            /\ ~Settled => (/\ IsSettle(Added[3])
                            /\ Added[3].result = Fail(failures.socketEnded)
                            /\ Failed(failures.socketEnded)')
            /\ IsTransport(Added[Len(Added)], "end")
            /\ net'.endCalls = net.endCalls + 1
            /\ session'.status = session.status]_vars
    /\ (\E i \in DOMAIN log : IsTimer(log[i], "onNoPong") /\ log[i].status # "closed")
          ~> (/\ session.status = "closed"
              /\ \E i \in DOMAIN log : IsEmit(log[i], "close"))

\* C19 witness: the server never answered during the handshake: PING
\* :ignored, timeout, SocketEnded, the end request, and the close.
C19_Witness ==
    /\ \E i \in DOMAIN log : IsTimer(log[i], "onNoPong") /\ log[i].status = "starting"
    /\ Count(LAMBDA e : IsEmit(e, "timeout")) = 1
    /\ Failed(failures.socketEnded)
    /\ net.endCalls = 1
    /\ session.status = "closed"
    /\ IsEmit(log[Len(log)], "close")

\* C20 as stated: once the status is Closed no timer is pending, and a step
\* taken in Closed emits nothing but close or end and lets no timer expire.
C20_Original ==
    /\ [](session.status = "closed" => session.timers = [onSilence |-> 0, onNoPong |-> 0])
    /\ [][session.status = "closed" =>
            \A i \in DOMAIN Added :
                /\ Added[i].kind = "emit" => Added[i].name \in {"close", "end"}
                /\ Added[i].kind # "timer"]_vars

ConnectWrites ==
    (IF config.proxy
     THEN <<Join(<<<<"WEBIRC">>, proxy.password, proxy.username, proxy.hostname, proxy.ip>>)>>
     ELSE <<>>)
    \o (IF config.password THEN <<<<"PASS", SP>> \o password>> ELSE <<>>)
    \o << <<"USER", SP>> \o username \o <<SP, "8", SP, "*", SP, COLON>> \o realname,
          <<"NICK", SP>> \o config.nicknames[1] >>

\* C22: without capabilities, nothing is written before the connect event,
\* and the connect event writes exactly WEBIRC (if a proxy is configured),
\* PASS (if a password is configured), USER, NICK nicknames[0], in this
\* order, and nothing else.
C22_ConnectWrites ==
    /\ []((~config.capabilities.defined /\ Count(LAMBDA e : IsEmit(e, "connect")) = 0)
            => Count(IsWrite) = 0)
    /\ [][(/\ ~config.capabilities.defined /\ config.nicknames # <<>>
           /\ Len(Added) >= 1 /\ IsEmit(Added[1], "connect"))
          => (/\ Len(Added) = 1 + Len(ConnectWrites)
              /\ \A k \in DOMAIN ConnectWrites :
                    /\ IsWrite(Added[k + 1])
                    /\ Added[k + 1].text = ConnectWrites[k] \o <<CR, LF>>)]_vars

\* C22 witness: a proxy and a password are configured and the connect event
\* has written its four messages.
C22_Witness ==
    /\ config.proxy /\ config.password /\ ~config.capabilities.defined
    /\ Count(LAMBDA e : IsEmit(e, "connect")) = 1
    /\ Count(IsWrite) = 4
    /\ IsCommand(log[Len(log)], "NICK")

\* C23 as stated: with capabilities configured the connect event writes
\* CAP LS and neither USER nor NICK; USER is written only by the step of the
\* ACK or NAK that makes the replies as many as the requests, with CAP END
\* before it and NICK nicknames[0] after it; and this happens exactly once.
C23_Original ==
    /\ [][(/\ config.capabilities.defined /\ ~config.saslPassword
           /\ \E i \in DOMAIN Added : IsCommand(Added[i], "USER") \/ IsCommand(Added[i], "NICK"))
          => (/\ IsCapReply(Added[1])
              /\ StrictEq(session'.sentRequests, session'.respondedRequests)
              /\ Len(Writes(Added)) = 3
              /\ IsCap(Writes(Added)[1], "END")
              /\ IsCommand(Writes(Added)[2], "USER")
              /\ Writes(Added)[3].text = <<"NICK", SP>> \o config.nicknames[1] \o <<CR, LF>>)]_vars
    /\ []((config.capabilities.defined /\ ~config.saslPassword) =>
            /\ Count(LAMBDA e : IsCommand(e, "USER")) <= 1
            /\ Count(LAMBDA e : IsCap(e, "END")) <= 1)

\* The part of C23 that holds: with capabilities configured (no SASL) the
\* connect event writes CAP LS and neither USER nor NICK; USER and NICK are written only
\* by the step of a CAP ACK or NAK that leaves the replies counted equal to
\* the requests sent, and every such step (unless the NAK names a required
\* capability) writes CAP END, USER and then NICK with the next nickname,
\* or QUIT when none is left; the first such step writes NICK nicknames[0].
C23_UserAfterReplies ==
    /\ [][(/\ config.capabilities.defined /\ Len(Added) >= 1 /\ IsEmit(Added[1], "connect"))
          => (/\ Len(Writes(Added)) = 1
              /\ IsCap(Added[Len(Added)], "LS"))]_vars
    /\ [][(/\ config.capabilities.defined /\ ~config.saslPassword
           /\ \E i \in DOMAIN Added : IsCommand(Added[i], "USER") \/ IsCommand(Added[i], "NICK"))
          => (/\ IsCapReply(Added[1])
              /\ StrictEq(session'.sentRequests, session'.respondedRequests)
              /\ Len(Writes(Added)) = 3
              /\ IsCap(Writes(Added)[1], "END")
              /\ IsCommand(Writes(Added)[2], "USER")
              /\ Writes(Added)[3].text =
                    IF session.nicknames = <<>> THEN <<"QUIT", CR, LF>>
                    ELSE <<"NICK", SP>> \o session.nicknames[1] \o <<CR, LF>>
              /\ Count(LAMBDA e : IsCommand(e, "USER")) = 0
                    => session.nicknames = config.nicknames)]_vars
    /\ [][(/\ config.capabilities.defined /\ ~config.saslPassword
           /\ session.attached
           /\ Len(Added) >= 1 /\ IsCapReply(Added[1])
           /\ StrictEq(session'.sentRequests, session'.respondedRequests)
           /\ ~(IsCapLine(Added[1], "NAK") /\ includes(Requires, Named(Added[1]))))
          => (/\ Len(Writes(Added)) = 3
              /\ IsCap(Writes(Added)[1], "END")
              /\ IsCommand(Writes(Added)[2], "USER")
              /\ IF session.nicknames = <<>>
                 THEN IsCommand(Writes(Added)[3], "QUIT")
                 ELSE IsCommand(Writes(Added)[3], "NICK"))]_vars

\* a state that part of C23 is about: two wanted capabilities were requested, one was ACKed and
\* one NAKed, and CAP END, USER and NICK were written after the second reply.
C23_Witness ==
    /\ Count(LAMBDA e : IsCap(e, "REQ")) = 2
    /\ Count(LAMBDA e : IsCapLine(e, "ACK")) = 1
    /\ Count(LAMBDA e : IsCapLine(e, "NAK")) = 1
    /\ Len(log) >= 3
    /\ IsCap(log[Len(log) - 2], "END")
    /\ IsCommand(log[Len(log) - 1], "USER")
    /\ IsCommand(log[Len(log)], "NICK")

\* a required capability cannot be had: the line is a CAP LS whose list
\* lacks one, or a CAP NAK that names one
Unsatisfied(e) ==
    \/ /\ IsCapLine(e, "LS")
       /\ \E i \in DOMAIN Requires : ~includes(Listed(e), Requires[i])
    \/ /\ IsCapLine(e, "NAK")
       /\ includes(Requires, Named(e))

RECURSIVE Acked(_)
Acked(entries) ==
    IF entries = <<>> THEN <<>>
    ELSE LET e == entries[Len(entries)]
             before == Acked(SubSeq(entries, 1, Len(entries) - 1))
         IN  IF IsCapLine(e, "ACK") /\ includes(Wants, Named(e))
             THEN Append(before, Named(e))
             ELSE before

\* the capability was asked for in a CAP REQ
Requested(capability) ==
    \E i \in DOMAIN log :
        /\ IsCap(log[i], "REQ")
        /\ includes(SplitSpace(SubSeq(log[i].text, 10, Len(log[i].text) - 2)), capability)

\* C25 as stated: an Ok outcome after a capability negotiation lists the
\* required capabilities followed by the wanted capabilities the server
\* ACKed, in ACK order; only capabilities that were requested appear, and
\* none appears twice.
C25_Original ==
    (/\ config.capabilities.defined /\ Settled /\ Outcome.tag = "Ok"
     /\ Count(LAMBDA e : IsCap(e, "END")) = 1) =>
        LET list == Outcome.data.capabilities.list
        IN  /\ Outcome.data.capabilities.defined
            /\ Len(list) >= Len(Requires)
            /\ SubSeq(list, 1, Len(Requires)) = Requires
            /\ \A i \in DOMAIN list : Requested(list[i])
            /\ \A i, j \in DOMAIN list : i # j => list[i] # list[j]

\* The part of C25 that holds: the list is the required capabilities
\* followed by the capability of every ACK line that names a wanted one,
\* in arrival order, repeated and unrequested ones included.
C25_AckOrder ==
    [][(config.capabilities.defined /\ ~Settled /\ Settled' /\ Outcome'.tag = "Ok") =>
        /\ Outcome'.data.capabilities.defined
        /\ Outcome'.data.capabilities.list = Requires \o Acked(log)]_vars

\* C26 as stated: with no capabilities configured, the Ok outcome and the
\* payload of the ready event carry capabilities equal to the empty
\* sequence, never an undefined value.
C26_Original ==
    ~config.capabilities.defined =>
        /\ Outcome.tag = "Ok" => Outcome.data.capabilities = List(<<>>)
        /\ \A i \in DOMAIN log :
                IsEmit(log[i], "ready") => log[i].result.data.capabilities = List(<<>>)

\* C27 as stated: on a 410 or 421 line after CAP LS was sent, a non-empty
\* requires list makes the client write QUIT and settle
\* Fail(MissingRequiredCapabilities); with only wants configured nothing is
\* settled and the client writes USER and NICK.
C27_Original ==
    [][(/\ config.capabilities.defined /\ session.attached /\ ~Settled
        /\ Len(Added) >= 1
        /\ (IsLine(Added[1], 1, "410") \/ IsLine(Added[1], 1, "421")))
       => IF Requires # <<>>
          THEN /\ Len(Writes(Added)) = 1
               /\ IsCommand(Writes(Added)[1], "QUIT")
               /\ Failed(failures.missingRequiredCapabilities)'
          ELSE /\ ~Settled'
               /\ Len(Writes(Added)) = 2
               /\ IsCommand(Writes(Added)[1], "USER")
               /\ IsCommand(Writes(Added)[2], "NICK")]_vars

\* C28 as stated: with SASL configured, the step of the CAP ACK that
\* acknowledges sasl writes AUTHENTICATE PLAIN, the step of AUTHENTICATE +
\* writes AUTHENTICATE with the encoded credentials, and once sasl is
\* acknowledged no USER or NICK is written before a 903 line has arrived.
C28_Original ==
    /\ [][(/\ config.saslPassword /\ session.attached /\ Len(Added) >= 1
           /\ IsCapLine(Added[1], "ACK") /\ Named(Added[1]) = capSasl)
          => (/\ Len(Writes(Added)) >= 1
              /\ Writes(Added)[1].text = <<"AUTHENTICATE", SP, "PLAIN", CR, LF>>)]_vars
    /\ [][(/\ config.saslPassword /\ session.attached /\ Len(Added) >= 1
           /\ Added[1].kind = "emit" /\ Added[1].name = "data"
           /\ Added[1].text = authenticate_plus)
          => (/\ Len(Writes(Added)) = 1
              /\ Writes(Added)[1].text =
                    <<"AUTHENTICATE", SP>> \o EncodedCredentials \o <<CR, LF>>)]_vars
    /\ [](config.saslPassword =>
            \A i \in DOMAIN log :
                (IsCommand(log[i], "USER") \/ IsCommand(log[i], "NICK"))
                /\ (\E k \in 1..(i - 1) : IsCapLine(log[k], "ACK") /\ Named(log[k]) = capSasl)
                => \E k \in 1..(i - 1) : IsLine(log[k], 1, "903"))

\* the entries a step added before the second line of its chunk was emitted
FirstLine(entries) ==
    IF \E i \in 2..Len(entries) : IsEmit(entries[i], "data")
    THEN SubSeq(entries, 1,
                (CHOOSE i \in 2..Len(entries) :
                    /\ IsEmit(entries[i], "data")
                    /\ \A k \in 2..(i - 1) : ~IsEmit(entries[k], "data")) - 1)
    ELSE entries

\* C29: while the outcome is pending in status Starting, a line whose first
\* token is ERROR settles Fail(BadProxyConfiguration) and writes nothing,
\* with or without a proxy configured; a line behind it in the same chunk
\* does not change the outcome.
C29_ErrorLine ==
    [][(/\ session.status = "starting" /\ session.attached /\ ~Settled
        /\ Len(Added) >= 1 /\ IsLine(Added[1], 0, "ERROR"))
       => (/\ Len(FirstLine(Added)) = 2
           /\ IsSettle(Added[2])
           /\ Added[2].result = Fail(failures.badProxyConfiguration)
           /\ Failed(failures.badProxyConfiguration)')]_vars

\* C29 witness: no proxy is configured, an ERROR line and a 001 line came
\* in one chunk: ready was emitted and the outcome is BadProxyConfiguration.
C29_Witness ==
    /\ ~config.proxy
    /\ Failed(failures.badProxyConfiguration)
    /\ Count(LAMBDA e : IsLine(e, 0, "ERROR")) = 1
    /\ Count(LAMBDA e : IsEmit(e, "ready")) = 1

\* the line is numeric 464, or a NOTICE whose text ends in Login unsuccessful
IsBadPassword(e) ==
    \/ IsLine(e, 1, "464")
    \/ /\ IsLine(e, 1, "NOTICE")
       /\ Len(e.text) >= Len(LoginUnsuccessful)
       /\ SubSeq(e.text, Len(e.text) - Len(LoginUnsuccessful) + 1, Len(e.text))
             = LoginUnsuccessful

\* C30: while the outcome is pending in status Starting, a 464 line or a
\* NOTICE line ending in Login unsuccessful settles Fail(BadPassword), and
\* the outcome stays Fail(BadPassword) in every later step, the transport's
\* end and close included.
C30_BadPassword ==
    /\ [][(/\ session.status = "starting" /\ session.attached /\ ~Settled
           /\ Len(Added) >= 1 /\ IsBadPassword(Added[1]))
          => (/\ Len(Added) = 2
              /\ IsSettle(Added[2])
              /\ Added[2].result = Fail(failures.badPassword)
              /\ Failed(failures.badPassword)')]_vars
    /\ [][Failed(failures.badPassword) => Failed(failures.badPassword)']_vars

\* C30 witness: the Twitch NOTICE failed the login, then the transport
\* ended and closed; the outcome is still BadPassword.
C30_Witness ==
    /\ Failed(failures.badPassword)
    /\ Count(LAMBDA e : IsLine(e, 1, "NOTICE")) = 1
    /\ Count(LAMBDA e : IsEmit(e, "end")) = 1
    /\ Count(LAMBDA e : IsEmit(e, "close")) = 1
    /\ session.status = "closed"

\* a write of one of the commands only the startup handler issues
IsStartupWrite(e) ==
    \E command \in {"NICK", "USER", "CAP", "AUTHENTICATE", "QUIT"} : IsCommand(e, command)

\* C31 as stated: once the outcome has settled, the startup handler handles
\* no further line, the rest of the settling line's chunk included: behind
\* a settlement a step writes no NICK, USER, CAP, AUTHENTICATE or QUIT and
\* emits no ready, and a step that starts settled does neither.
C31_Original ==
    /\ [][\A i \in DOMAIN Added : IsSettle(Added[i]) =>
            \A j \in (i + 1)..Len(Added) :
                ~IsStartupWrite(Added[j]) /\ ~IsEmit(Added[j], "ready")]_vars
    /\ [][Settled =>
            \A j \in DOMAIN Added :
                ~IsStartupWrite(Added[j]) /\ ~IsEmit(Added[j], "ready")]_vars

\* C32 as stated: for every line received during startup the startup
\* handler has finished with the line before a user data listener is
\* called with it, whenever the listener was registered: what the handler
\* writes, emits and settles for a line comes before the listener's call.
C32_Original ==
    [][session.attached =>
        \A i \in DOMAIN Added :
            IsListener(Added[i]) => (i = Len(Added) \/ IsEmit(Added[i + 1], "data"))]_vars

\* C38 as stated: the startup handler raises no fault on any inbound line,
\* and every line of the chunk reaches the user's data listener.
C38_Original ==
    [][(Len(Added) >= 1 /\ IsEmit(Added[1], "data")) =>
        /\ \A i \in DOMAIN Added : Added[i].kind # "throw"
        /\ session.listening # "no" =>
              \A i \in DOMAIN Added : IsEmit(Added[i], "data") =>
                  \E j \in DOMAIN Added : IsListener(Added[j]) /\ Added[j].text = Added[i].text]_vars

\* C33 as stated: after connect() was called, whenever the status is closed
\* the outcome is settled, and a session that closed before it was running
\* has settled with a Fail.
C33_Original ==
    (Count(LAMBDA e : IsCall(e, "connect")) >= 1 /\ session.status = "closed") =>
        /\ Settled
        /\ Count(LAMBDA e : IsEmit(e, "ready")) = 0 => Outcome.tag = "Fail"

\* C34 as stated: with capabilities configured, nothing required and no
\* wanted capability in the server's CAP LS list, the step of the LS line
\* sends no CAP REQ and writes CAP END, USER and NICK.
C34_Original ==
    [][(/\ config.capabilities.defined /\ ~config.saslPassword
        /\ session.attached /\ ~Settled
        /\ Len(Added) >= 1 /\ IsCapLine(Added[1], "LS")
        /\ Len(SplitSpace(Added[1].text)) >= 5
        /\ Requires = <<>>
        /\ \A i \in DOMAIN Wants : ~includes(Listed(Added[1]), Wants[i]))
       => (/\ Len(Writes(Added)) = 3
           /\ IsCap(Writes(Added)[1], "END")
           /\ IsCommand(Writes(Added)[2], "USER")
           /\ IsCommand(Writes(Added)[3], "NICK"))]_vars

\* C35 as stated: when the outcome is Ok after a completed negotiation
\* (USER was written), exactly one CAP END was written and it comes before
\* the settlement, with SASL configured but not acknowledged too; and with
\* sasl acknowledged no CAP END is written before a 903 line arrived.
C35_Original ==
    /\ \A i \in DOMAIN log :
          (/\ config.capabilities.defined
           /\ IsSettle(log[i]) /\ log[i].name = "Ok"
           /\ \E k \in 1..(i - 1) : IsCommand(log[k], "USER"))
          => /\ Count(LAMBDA e : IsCap(e, "END")) = 1
             /\ \E k \in 1..(i - 1) : IsCap(log[k], "END")
    /\ \A i \in DOMAIN log :
          (/\ config.saslPassword /\ IsCap(log[i], "END")
           /\ \E k \in 1..(i - 1) : IsCapLine(log[k], "ACK") /\ Named(log[k]) = capSasl)
          => \E k \in 1..(i - 1) : IsLine(log[k], 1, "903")

IsAuthenticatePlain(e) ==
    e.kind = "write" /\ e.text = <<"AUTHENTICATE", SP, "PLAIN", CR, LF>>

\* C36 as stated: AUTHENTICATE PLAIN is written at most once in a session,
\* and only with SASL credentials configured and after a CAP ACK for sasl.
C36_Original ==
    /\ Count(IsAuthenticatePlain) <= 1
    /\ \A i \in DOMAIN log : IsAuthenticatePlain(log[i]) =>
          /\ config.saslPassword
          /\ \E k \in 1..(i - 1) : IsCapLine(log[k], "ACK") /\ Named(log[k]) = capSasl

\* C37 as stated: once the facade has asked the transport to end, no step
\* calls the transport's write: not raw(), not the auto-PONG, not the
\* watchdog's PING.
C37_Original ==
    [][net.endCalls > 0 => \A i \in DOMAIN Added : ~IsWrite(Added[i])]_vars

\* C39 as stated: once QUIT has been written, no NICK, USER, CAP,
\* AUTHENTICATE or second QUIT is written for the rest of the session.
C39_Original ==
    \A i, j \in DOMAIN log :
        (i < j /\ IsCommand(log[i], "QUIT")) => ~IsStartupWrite(log[j])

\* C40: at every reachable state at most one watchdog timer is scheduled,
\* and it is the one the timeout handle names: the connect handler, every
\* inbound chunk and the firing of onSilence leave no earlier timer live.
C40_SingleTimer ==
    /\ session.timers.onSilence + session.timers.onNoPong <= 1
    /\ session.timers.onSilence = 1 => session.timeout = "onSilence"
    /\ session.timers.onNoPong = 1 => session.timeout = "onNoPong"

\* C40 witness: onSilence fired and scheduled onNoPong, then a chunk came in:
\* onNoPong was cancelled and onSilence is the one timer scheduled.
C40_Witness ==
    /\ \E i, j \in DOMAIN log :
          i < j /\ IsTimer(log[i], "onSilence") /\ IsEmit(log[j], "data")
    /\ session.timers = [onSilence |-> 1, onNoPong |-> 0]
    /\ session.timeout = "onSilence"

====
